---- MODULE Spec2Model ----
(***************************************************************************)
(* A model of src/main.rs of obrs: the chunk planner, the per-chunk scan   *)
(* (do_aggregate), the fixed-point parser (parse_int), the scoped worker   *)
(* threads with their mpsc channel, the merge loop and format_output.      *)
(*                                                                         *)
(* Bytes are their ASCII codes; a buffer is a sequence of bytes. Offsets   *)
(* are the 0-based offsets of the Rust code, so Rust's mmap[i] is          *)
(* mmap[i + 1] here.                                                       *)
(***************************************************************************)
EXTENDS Integers, Sequences, FiniteSets, TLC

VARIABLES
    mmap,           \* the mapped file: the whole input buffer
    num_threads,    \* available_parallelism()
    pc,             \* position of the controlling thread
    chunk_offsets,  \* the planner's offsets
    window,         \* index of the next window of chunk_offsets.windows(2)
    remaining,      \* start offset of the slice `remaining` in the spawn loop
    worker,         \* worker[i]: "idle", "running", "sent" or "panicked"
    this,           \* this[i]: the byte slice moved into worker i
    tx,             \* TRUE while the controlling thread's original sender lives
    chan,           \* the channel's queue: tables sent and not yet received
    stats,          \* the reducer's table
    received,       \* the workers whose tables were received, in order
    output,         \* the report of format_output
    field,          \* the argument of a stand-alone parse_int call
    parsed,         \* the result of that call
    scan_start,     \* do_aggregate's start: offset of the line being scanned
    scan_stats      \* do_aggregate's table while it scans line by line

vars == <<mmap, num_threads, pc, chunk_offsets, window, remaining, worker, this,
          tx, chan, stats, received, output, field, parsed, scan_start, scan_stats>>

----------------------------------------------------------------------------
\* Bytes the code matches on.
NL == 10
SEMI == 59
MINUS == 45
DOT == 46
ZERO == 48
NINE == 57

\* Bounds of the model.
MaxRecords == 3
MaxThreads == 3
MaxFieldLen == 4
MaxTotal == 35
MaxCount == 3
MaxReportKeys == 4
MaxShortRecords == 2
MaxManyThreads == 5
MaxScanRecords == 3
MaxFairRecords == 2
MaxFairThreads == 3

Min(a, b) == IF a < b THEN a ELSE b
Max(a, b) == IF a > b THEN a ELSE b

\* iter().position(|b| b == byte): the 0-based index of the first occurrence,
\* -1 for None.
Position(s, byte) ==
    IF \E k \in 1..Len(s) : s[k] = byte
    THEN (CHOOSE k \in 1..Len(s) : s[k] = byte /\ \A j \in 1..(k - 1) : s[j] # byte) - 1
    ELSE -1

----------------------------------------------------------------------------
\* parse_int

\* Mutant of ParseLoop: a byte that is no digit, '-' or '.' is skipped like the
\* decimal point.
RECURSIVE ParseLoopSkipsForeign(_, _, _, _)
ParseLoopSkipsForeign(bytes, i, result, negative_toggle) ==
    IF i > Len(bytes) THEN result * negative_toggle
    ELSE LET byte == bytes[i] IN
         IF byte = MINUS THEN ParseLoopSkipsForeign(bytes, i + 1, result, -1)
         ELSE IF byte >= ZERO /\ byte <= NINE
              THEN ParseLoopSkipsForeign(bytes, i + 1, result * 10 + (byte - ZERO),
                                         negative_toggle)
         ELSE ParseLoopSkipsForeign(bytes, i + 1, result, negative_toggle)

RECURSIVE ParseLoop(_, _, _, _)
ParseLoop(bytes, i, result, negative_toggle) ==
    IF i > Len(bytes) THEN result * negative_toggle
    ELSE LET byte == bytes[i] IN
         IF byte = MINUS THEN ParseLoop(bytes, i + 1, result, -1)
         ELSE IF byte = DOT THEN ParseLoop(bytes, i + 1, result, negative_toggle)
         ELSE IF byte >= ZERO /\ byte <= NINE
              THEN ParseLoop(bytes, i + 1, result * 10 + (byte - ZERO), negative_toggle)
         ELSE result * negative_toggle

\* Mutant of ParseInt: the result is returned without the sign toggle.
ParseIntUnsigned(bytes) ==
    LET r == ParseLoop(bytes, 1, 0, 1) IN IF r < 0 THEN -r ELSE r

\* Fields of the model hold at most MaxFieldLen + 1 digits, far below the 10
\* digits at which the i32 accumulator would overflow.
ParseInt(bytes) == ParseLoop(bytes, 1, 0, 1)

----------------------------------------------------------------------------
\* do_aggregate

EmptyMap == <<>>

\* Mutant of Vacant: the entry is created with a zero total.
VacantTotalZero(reading) == [min |-> reading, max |-> reading, total |-> 0, count |-> 1]

Vacant(reading) == [min |-> reading, max |-> reading, total |-> reading, count |-> 1]

\* Mutant of Occupied: the total is overwritten, not accumulated.
OccupiedTotalOverwritten(entry, reading) ==
    [min   |-> IF reading < entry.min THEN reading ELSE entry.min,
     max   |-> IF reading < entry.min THEN entry.max
               ELSE IF reading > entry.max THEN reading ELSE entry.max,
     total |-> reading,
     count |-> entry.count + 1]

\* Mutant of Occupied: the second comparison is made against min.
OccupiedMaxAgainstMin(entry, reading) ==
    [min   |-> IF reading < entry.min THEN reading ELSE entry.min,
     max   |-> IF reading < entry.min THEN entry.max
               ELSE IF reading > entry.min THEN reading ELSE entry.max,
     total |-> entry.total + reading,
     count |-> entry.count + 1]

Occupied(entry, reading) ==
    [min   |-> IF reading < entry.min THEN reading ELSE entry.min,
     max   |-> IF reading < entry.min THEN entry.max
               ELSE IF reading > entry.max THEN reading ELSE entry.max,
     total |-> entry.total + reading,
     count |-> entry.count + 1]

UpdateStats(map, station, reading) ==
    IF station \in DOMAIN map
    THEN [map EXCEPT ![station] = Occupied(@, reading)]
    ELSE map @@ (station :> Vacant(reading))

\* The loop over the bytes of a chunk: i is the 0-based index examined, start
\* the offset of the current line. The result says whether the scan panicked
\* ("Bad line structure") and the table built.
RECURSIVE ScanFrom(_, _, _, _)
ScanFrom(bytes, i, start, map) ==
    IF i >= Len(bytes) THEN [panicked |-> FALSE, stats |-> map]
    ELSE IF bytes[i + 1] # NL THEN ScanFrom(bytes, i + 1, start, map)
    ELSE LET line_bytes == SubSeq(bytes, start + 1, i)
             semicolon_pos == Position(line_bytes, SEMI)
         IN  IF semicolon_pos = -1 THEN [panicked |-> TRUE, stats |-> map]
             ELSE LET station == SubSeq(line_bytes, 1, semicolon_pos)
                      reading_bytes == SubSeq(line_bytes, semicolon_pos + 2, Len(line_bytes))
                      reading == ParseInt(reading_bytes)
                  IN  ScanFrom(bytes, i + 1, i + 1, UpdateStats(map, station, reading))

\* Mutant of DoAggregate: the bytes after the last newline are taken for a
\* line of their own.
DoAggregateWithTail(bytes) ==
    IF bytes # <<>> /\ bytes[Len(bytes)] # NL
    THEN ScanFrom(bytes \o <<NL>>, 0, 0, EmptyMap)
    ELSE ScanFrom(bytes, 0, 0, EmptyMap)

\* Mutant of DoAggregate: a chunk without a first line is taken for an error.
DoAggregateEmptyPanics(bytes) ==
    IF bytes = <<>> THEN [panicked |-> TRUE, stats |-> EmptyMap]
    ELSE ScanFrom(bytes, 0, 0, EmptyMap)

DoAggregate(bytes) == ScanFrom(bytes, 0, 0, EmptyMap)

----------------------------------------------------------------------------
\* aggregate: the planner

\* Mutant of ChunkSize: the quotient is rounded up.
ChunkSizeRoundedUp == (Len(mmap) + num_threads - 1) \div num_threads

ChunkSize == Len(mmap) \div num_threads

\* Mutant of PlanOffset: the position found in the slice is pushed without the
\* slice's own offset.
PlanOffsetNoBase(thread_num) ==
    LET offset == thread_num * ChunkSize IN
    IF offset > Len(mmap) THEN -1
    ELSE LET next_line == Position(SubSeq(mmap, offset + 1, Len(mmap)), NL) IN
         IF next_line = -1 THEN -1 ELSE next_line + 1

\* Mutant of PlanOffset: the split is put on the line terminator, not after it.
PlanOffsetOnNewline(thread_num) ==
    LET offset == thread_num * ChunkSize IN
    IF offset > Len(mmap) THEN -1
    ELSE LET next_line == Position(SubSeq(mmap, offset + 1, Len(mmap)), NL) IN
         IF next_line = -1 THEN -1 ELSE offset + next_line

\* Mutant of PlanOffset: with no newline left the split is put at the end of
\* the buffer.
PlanOffsetFallsBackToEnd(thread_num) ==
    LET offset == thread_num * ChunkSize IN
    IF offset > Len(mmap) THEN -1
    ELSE LET next_line == Position(SubSeq(mmap, offset + 1, Len(mmap)), NL) IN
         IF next_line = -1 THEN Len(mmap) ELSE offset + next_line + 1

\* One iteration of the for_each: the offset pushed for thread_num, or -1 when
\* the iteration panics (the slice start is out of range, or "Must find a
\* newline").
PlanOffset(thread_num) ==
    LET offset == thread_num * ChunkSize IN
    IF offset > Len(mmap) THEN -1
    ELSE LET next_line == Position(SubSeq(mmap, offset + 1, Len(mmap)), NL) IN
         IF next_line = -1 THEN -1 ELSE offset + next_line + 1

\* window[1].unchecked_sub(window[0]): undefined when it underflows, and then
\* any length may come out.
UncheckedSub(a, b) == IF a >= b THEN {a - b} ELSE 0..(Len(mmap) + 1)

----------------------------------------------------------------------------
\* aggregate: the merge of one received table into the accumulated one

\* Mutant of MergeEntry: the incoming minimum overwrites the accumulated one.
MergeEntryMinOverwritten(entry, local) ==
    [min   |-> local.min,
     max   |-> Max(entry.max, local.max),
     total |-> entry.total + local.total,
     count |-> entry.count + local.count]

\* Mutant of MergeEntry: the counts are not added.
MergeEntryCountKept(entry, local) ==
    [min   |-> Min(entry.min, local.min),
     max   |-> Max(entry.max, local.max),
     total |-> entry.total + local.total,
     count |-> entry.count]

MergeEntry(entry, local) ==
    [min   |-> Min(entry.min, local.min),
     max   |-> Max(entry.max, local.max),
     total |-> entry.total + local.total,
     count |-> entry.count + local.count]

\* Mutant of MergeTables: and_modify without or_insert, so a station the
\* accumulated table lacks is dropped.
MergeTablesNoInsert(map, local_stats) ==
    [station \in DOMAIN map |->
        IF station \in DOMAIN local_stats
        THEN MergeEntry(map[station], local_stats[station])
        ELSE map[station]]

MergeTables(map, local_stats) ==
    [station \in DOMAIN map \cup DOMAIN local_stats |->
        IF station \in DOMAIN map /\ station \in DOMAIN local_stats
        THEN MergeEntry(map[station], local_stats[station])
        ELSE IF station \in DOMAIN map THEN map[station]
        ELSE local_stats[station]]

\* Mutant of SendersGone: the workers' clones are forgotten.
SendersGoneClonesForgotten(t, w) == ~t

\* Every sender is gone: the original was dropped and every worker's clone
\* went with its closure. Only then does recv() on an empty queue return Err.
\* Mutant of SendersGone: the original sender outlives the loop, so the
\* receiver never sees the channel disconnected.
SendersGoneNever(t, w) == FALSE

\* Mutant of SendersGone: the channel counts as disconnected once one clone is
\* dropped.
SendersGoneAfterOne(t, w) == ~t /\ \E i \in DOMAIN w : w[i] # "running"

SendersGone(t, w) == ~t /\ \A i \in DOMAIN w : w[i] # "running"

\* Mutant of AnyPanicked: a worker's panic is not propagated.
AnyPanickedIgnored(w) == FALSE

\* thread::scope panics on exit when a scoped thread panicked.
AnyPanicked(w) == \E i \in DOMAIN w : w[i] = "panicked"

----------------------------------------------------------------------------
\* format_output

\* Byte-wise lexicographic order of the station names (String's Ord).
LexLess(a, b) ==
    \E i \in 1..(Min(Len(a), Len(b)) + 1) :
        /\ \A j \in 1..(i - 1) : a[j] = b[j]
        /\ \/ i > Len(a) /\ i <= Len(b)
           \/ i <= Len(a) /\ i <= Len(b) /\ a[i] < b[i]

RECURSIVE SortNames(_)
SortNames(S) ==
    IF S = {} THEN <<>>
    ELSE LET m == CHOOSE x \in S : \A y \in S \ {x} : LexLess(x, y)
         IN  <<m>> \o SortNames(S \ {m})

\* stats.keys(): the hash table yields its keys in an order of its own; every
\* enumeration of the key set is possible.
RECURSIVE Enumerations(_)
Enumerations(S) ==
    IF S = {} THEN {<<>>}
    ELSE UNION { { <<x>> \o rest : rest \in Enumerations(S \ {x}) } : x \in S }

KeyOrders(map) == Enumerations(DOMAIN map)

\* names.sort(): a stable sort by String's Ord, here by insertion.
RECURSIVE InsertName(_, _)
InsertName(x, sorted) ==
    IF sorted = <<>> THEN <<x>>
    ELSE IF LexLess(x, Head(sorted)) THEN <<x>> \o sorted
    ELSE <<Head(sorted)>> \o InsertName(x, Tail(sorted))

\* Mutant of SortedNames: the sort is left out.
SortedNamesOmitted(names) == names

RECURSIVE SortedNames(_)
SortedNames(names) ==
    IF names = <<>> THEN <<>>
    ELSE InsertName(names[Len(names)], SortedNames(SubSeq(names, 1, Len(names) - 1)))

\* Mutant of MeanTimes10: the quotient is truncated toward zero.
MeanTimes10Truncated(total, count) ==
    IF total >= 0 THEN total \div count ELSE -((-total) \div count)

\* (total as f64 / count as f64).ceil(): within the model's range the quotient
\* is far from the 2^53 at which f64 would lose it, so this is the ceiling of
\* the exact quotient.
MeanTimes10(total, count) == -((-total) \div count)

\* One entry of the report, in tenths. The mean is an f64 and keeps the sign of
\* a quotient in (-1, 0): its ceiling is -0.0.
FormatEntry(station, e) ==
    [station  |-> station,
     min      |-> e.min,
     mean     |-> MeanTimes10(e.total, e.count),
     max      |-> e.max,
     neg_zero |-> e.total < 0 /\ MeanTimes10(e.total, e.count) = 0]

FormatOutputOf(map) ==
    LET names == SortNames(DOMAIN map)
    IN  [n \in 1..Len(names) |-> FormatEntry(names[n], map[names[n]])]

\* The report made from the keys as the table yielded them.
FormatFromKeys(keys, map) ==
    LET names == SortedNames(keys)
    IN  [n \in 1..Len(names) |-> FormatEntry(names[n], map[names[n]])]

----------------------------------------------------------------------------
\* The inputs of the model.

KeyA == <<97>>

Lines ==
    { <<97, 59, 49, 46, 50>>,         \* a;1.2
      <<98, 59, 45, 48, 46, 53>>,     \* b;-0.5
      <<98, 59, 51>>,                 \* b;3
      <<98>> }                        \* b     (no separator)

Tails ==
    { <<>>,
      <<97, 59, 49, 46, 49>> }        \* a;1.1 with no line terminator

RECURSIVE Join(_)
Join(recs) == IF recs = <<>> THEN <<>> ELSE Head(recs) \o <<NL>> \o Join(Tail(recs))

Buffers ==
    { Join(recs) \o tail :
        recs \in UNION { [1..n -> Lines] : n \in 0..MaxRecords }, tail \in Tails }

FieldBytes == {MINUS, DOT, ZERO, ZERO + 1, ZERO + 5, NINE, 13}

Fields == UNION { [1..n -> FieldBytes] : n \in 0..MaxFieldLen }

----------------------------------------------------------------------------
\* The run of aggregate.

Workers == 1..num_threads

Init ==
    /\ mmap \in Buffers
    /\ num_threads \in 1..MaxThreads
    /\ pc = "plan"
    /\ chunk_offsets = <<>>
    /\ window = 1
    /\ remaining = 0
    /\ scan_start = 0
    /\ scan_stats = EmptyMap
    /\ worker = [i \in 1..num_threads |-> "idle"]
    /\ this = [i \in 1..num_threads |-> <<>>]
    /\ tx = TRUE
    /\ chan = <<>>
    /\ stats = EmptyMap
    /\ received = <<>>
    /\ output = <<>>
    /\ field = <<>>
    /\ parsed = 0

\* Lines 76-83: vec![0], one offset per thread_num in 1..num_threads, the end.
Plan ==
    /\ pc = "plan"
    /\ LET bad == { k \in 1..(num_threads - 1) : PlanOffset(k) = -1 } IN
       IF bad # {}
       THEN LET first == CHOOSE k \in bad : \A j \in bad : k <= j IN
            /\ chunk_offsets' = <<0>> \o [k \in 1..(first - 1) |-> PlanOffset(k)]
            /\ pc' = "abort_plan"
       ELSE /\ chunk_offsets' =
                  <<0>> \o [k \in 1..(num_threads - 1) |-> PlanOffset(k)] \o <<Len(mmap)>>
            /\ pc' = "spawn"
    /\ UNCHANGED <<mmap, num_threads, window, remaining, worker, this, tx, chan,
                   stats, received, output, field, parsed,
                   scan_start, scan_stats>>

\* Lines 90-101: one iteration of the loop over the windows.
Spawn ==
    /\ pc = "spawn"
    /\ window < Len(chunk_offsets)
    /\ \E mid \in UncheckedSub(chunk_offsets[window + 1], chunk_offsets[window]) :
          IF mid > Len(mmap) - remaining
          THEN /\ pc' = "abort_split"
               /\ UNCHANGED <<window, remaining, worker, this>>
          ELSE /\ this' = [this EXCEPT ![window] = SubSeq(mmap, remaining + 1, remaining + mid)]
               /\ worker' = [worker EXCEPT ![window] = "running"]
               /\ remaining' = remaining + mid
               /\ window' = window + 1
               /\ pc' = pc
    /\ UNCHANGED <<mmap, num_threads, chunk_offsets, tx, chan, stats, received,
                   output, field, parsed,
                   scan_start, scan_stats>>

\* Line 103.
DropTx ==
    /\ pc = "spawn"
    /\ window = Len(chunk_offsets)
    /\ tx' = FALSE
    /\ pc' = "recv"
    /\ UNCHANGED <<mmap, num_threads, chunk_offsets, window, remaining, worker,
                   this, chan, stats, received, output, field, parsed,
                   scan_start, scan_stats>>

\* Lines 96-99: the closure of worker i. A panic in do_aggregate unwinds the
\* closure, which drops its sender without sending.
WorkerRun(i) ==
    /\ worker[i] = "running"
    /\ LET r == DoAggregate(this[i]) IN
       IF r.panicked
       THEN /\ worker' = [worker EXCEPT ![i] = "panicked"]
            /\ chan' = chan
       ELSE /\ worker' = [worker EXCEPT ![i] = "sent"]
            /\ chan' = Append(chan, [from |-> i, table |-> r.stats])
    /\ UNCHANGED <<mmap, num_threads, pc, chunk_offsets, window, remaining, this,
                   tx, stats, received, output, field, parsed,
                   scan_start, scan_stats>>

\* Line 106: blocks while the queue is empty and a sender lives.
RecvFirst ==
    /\ pc = "recv"
    /\ chan # <<>> \/ SendersGone(tx, worker)
    /\ IF chan # <<>>
       THEN /\ stats' = Head(chan).table
            /\ received' = <<Head(chan).from>>
            /\ chan' = Tail(chan)
            /\ pc' = "merge"
       ELSE /\ pc' = "abort_recv"
            /\ UNCHANGED <<stats, received, chan>>
    /\ UNCHANGED <<mmap, num_threads, chunk_offsets, window, remaining, worker,
                   this, tx, output, field, parsed,
                   scan_start, scan_stats>>

\* Lines 109-118: one iteration of `for local_stats in rx`.
MergeNext ==
    /\ pc = "merge"
    /\ chan # <<>>
    /\ stats' = MergeTables(stats, Head(chan).table)
    /\ received' = Append(received, Head(chan).from)
    /\ chan' = Tail(chan)
    /\ UNCHANGED <<mmap, num_threads, pc, chunk_offsets, window, remaining, worker,
                   this, tx, output, field, parsed,
                   scan_start, scan_stats>>

\* Lines 109, 120-121: the loop ends when the channel is empty and
\* disconnected; the scope then joins the workers.
ScopeExit ==
    /\ pc = "merge"
    /\ chan = <<>>
    /\ SendersGone(tx, worker)
    /\ pc' = IF AnyPanicked(worker) THEN "abort_scope" ELSE "format"
    /\ UNCHANGED <<mmap, num_threads, chunk_offsets, window, remaining, worker,
                   this, tx, chan, stats, received, output, field, parsed,
                   scan_start, scan_stats>>

\* Line 123.
FormatOutput ==
    /\ pc = "format"
    /\ \E keys \in KeyOrders(stats) : output' = FormatFromKeys(keys, stats)
    /\ pc' = "done"
    /\ UNCHANGED <<mmap, num_threads, chunk_offsets, window, remaining, worker,
                   this, tx, chan, stats, received, field, parsed,
                   scan_start, scan_stats>>

Next ==
    \/ Plan
    \/ Spawn
    \/ DropTx
    \/ \E i \in Workers : WorkerRun(i)
    \/ RecvFirst
    \/ MergeNext
    \/ ScopeExit
    \/ FormatOutput

Spec == Init /\ [][Next]_vars

Aborted == pc \in {"abort_plan", "abort_split", "abort_recv", "abort_scope"}

\* The run under a fair scheduler: while some thread can take a step, a step is
\* eventually taken. The controlling thread and the workers are OS threads
\* (thread::scope, line 85; scope.spawn, line 96), none of which waits on
\* anything but the channel.
FairLines ==
    { <<97, 59, 49, 46, 50>>,         \* a;1.2
      <<98>> }                        \* b     (no separator)

InitFair ==
    /\ mmap \in { Join(recs) \o tail :
                    recs \in UNION { [1..n -> FairLines] : n \in 0..MaxFairRecords },
                    tail \in Tails }
    /\ num_threads \in 1..MaxFairThreads
    /\ pc = "plan"
    /\ chunk_offsets = <<>>
    /\ window = 1
    /\ remaining = 0
    /\ scan_start = 0
    /\ scan_stats = EmptyMap
    /\ worker = [i \in 1..num_threads |-> "idle"]
    /\ this = [i \in 1..num_threads |-> <<>>]
    /\ tx = TRUE
    /\ chan = <<>>
    /\ stats = EmptyMap
    /\ received = <<>>
    /\ output = <<>>
    /\ field = <<>>
    /\ parsed = 0

SpecFair == InitFair /\ [][Next]_vars /\ WF_vars(Next)

----------------------------------------------------------------------------
\* parse_int on its own: one call on a field drawn from Fields.

InitParse ==
    /\ pc = "parse"
    /\ field \in Fields
    /\ parsed = 0
    /\ mmap = <<>>
    /\ num_threads = 1
    /\ chunk_offsets = <<>>
    /\ window = 1
    /\ remaining = 0
    /\ scan_start = 0
    /\ scan_stats = EmptyMap
    /\ worker = [i \in 1..1 |-> "idle"]
    /\ this = [i \in 1..1 |-> <<>>]
    /\ tx = TRUE
    /\ chan = <<>>
    /\ stats = EmptyMap
    /\ received = <<>>
    /\ output = <<>>

ParseCall ==
    /\ pc = "parse"
    /\ parsed' = ParseInt(field)
    /\ pc' = "parsed"
    /\ UNCHANGED <<mmap, num_threads, chunk_offsets, window, remaining, worker,
                   this, tx, chan, stats, received, output, field,
                   scan_start, scan_stats>>

NextParse == ParseCall

SpecParse == InitParse /\ [][NextParse]_vars

----------------------------------------------------------------------------
\* format_output on its own: one call on a table of one station whose total
\* and count range over the bounds, with extrema some readings of that total
\* and count have.

FormatTables ==
    { KeyA :> [min   |-> total \div count,
               max   |-> -((-total) \div count),
               total |-> total,
               count |-> count] :
        total \in (-MaxTotal)..MaxTotal, count \in 1..MaxCount }

InitFormat ==
    /\ pc = "format"
    /\ stats \in FormatTables
    /\ output = <<>>
    /\ mmap = <<>>
    /\ num_threads = 1
    /\ chunk_offsets = <<0, 0>>
    /\ window = 2
    /\ remaining = 0
    /\ scan_start = 0
    /\ scan_stats = EmptyMap
    /\ worker = [i \in 1..1 |-> "sent"]
    /\ this = [i \in 1..1 |-> <<>>]
    /\ tx = FALSE
    /\ chan = <<>>
    /\ received = <<1>>
    /\ field = <<>>
    /\ parsed = 0

NextFormat == FormatOutput

SpecFormat == InitFormat /\ [][NextFormat]_vars

----------------------------------------------------------------------------
\* format_output on its own, for the order of the report: one call on a table
\* of up to MaxReportKeys stations, each seen once.

ReportKeys ==
    { <<>>,             \* the empty name
      <<65>>,           \* A
      <<66>>,           \* B
      <<97>>,           \* a
      <<97, 98>>,       \* ab
      <<98>> }          \* b

ReportTables ==
    { [k \in S |-> Vacant(Len(k) + 1)] :
        S \in { T \in SUBSET ReportKeys : Cardinality(T) <= MaxReportKeys } }

InitReport ==
    /\ pc = "format"
    /\ stats \in ReportTables
    /\ output = <<>>
    /\ mmap = <<>>
    /\ num_threads = 1
    /\ chunk_offsets = <<0, 0>>
    /\ window = 2
    /\ remaining = 0
    /\ scan_start = 0
    /\ scan_stats = EmptyMap
    /\ worker = [i \in 1..1 |-> "sent"]
    /\ this = [i \in 1..1 |-> <<>>]
    /\ tx = FALSE
    /\ chan = <<>>
    /\ received = <<1>>
    /\ field = <<>>
    /\ parsed = 0

NextReport == FormatOutput

SpecReport == InitReport /\ [][NextReport]_vars

----------------------------------------------------------------------------
\* aggregate with more threads than records: short buffers of whole records,
\* down to a buffer shorter than num_threads bytes (chunk_size 0).

ShortLines ==
    { <<97, 59, 49>>,                 \* a;1
      <<97, 59, 45, 50>> }            \* a;-2

InitMany ==
    /\ \E recs \in UNION { [1..n -> ShortLines] : n \in 1..MaxShortRecords } :
          /\ mmap = Join(recs)
          /\ num_threads \in (Len(recs) + 1)..MaxManyThreads
    /\ pc = "plan"
    /\ chunk_offsets = <<>>
    /\ window = 1
    /\ remaining = 0
    /\ scan_start = 0
    /\ scan_stats = EmptyMap
    /\ worker = [i \in 1..num_threads |-> "idle"]
    /\ this = [i \in 1..num_threads |-> <<>>]
    /\ tx = TRUE
    /\ chan = <<>>
    /\ stats = EmptyMap
    /\ received = <<>>
    /\ output = <<>>
    /\ field = <<>>
    /\ parsed = 0

SpecMany == InitMany /\ [][Next]_vars

----------------------------------------------------------------------------
\* do_aggregate on its own, line by line: one call on a chunk of up to
\* MaxScanRecords lines.

ScanLines ==
    { <<97, 59, 49, 46, 50>>,         \* a;1.2
      <<97, 59, 45, 48, 46, 53>>,     \* a;-0.5
      <<97, 59, 48, 46, 51>>,         \* a;0.3
      <<98, 59, 48, 46, 51>>,         \* b;0.3
      <<98>> }                        \* b     (no separator)

InitScan ==
    /\ pc = "scan"
    /\ mmap \in { Join(recs) \o tail :
                    recs \in UNION { [1..n -> ScanLines] : n \in 0..MaxScanRecords },
                    tail \in Tails }
    /\ scan_start = 0
    /\ scan_stats = EmptyMap
    /\ num_threads = 1
    /\ chunk_offsets = <<>>
    /\ window = 1
    /\ remaining = 0
    /\ worker = [i \in 1..1 |-> "idle"]
    /\ this = [i \in 1..1 |-> <<>>]
    /\ tx = TRUE
    /\ chan = <<>>
    /\ stats = EmptyMap
    /\ received = <<>>
    /\ output = <<>>
    /\ field = <<>>
    /\ parsed = 0

\* Lines 20-62: the loop runs over the bytes up to and including the next
\* newline and handles the line it ends; with no newline left the loop ends
\* and the table is returned (line 65).
ScanLine ==
    /\ pc = "scan"
    /\ LET i == Position(SubSeq(mmap, scan_start + 1, Len(mmap)), NL) IN
       IF i = -1
       THEN /\ pc' = "scanned"
            /\ UNCHANGED <<scan_start, scan_stats>>
       ELSE LET line_bytes == SubSeq(mmap, scan_start + 1, scan_start + i)
                semicolon_pos == Position(line_bytes, SEMI)
            IN  /\ scan_start' = scan_start + i + 1
                /\ IF semicolon_pos = -1
                   THEN /\ pc' = "scan_panic"
                        /\ UNCHANGED scan_stats
                   ELSE LET station == SubSeq(line_bytes, 1, semicolon_pos)
                            reading_bytes ==
                                SubSeq(line_bytes, semicolon_pos + 2, Len(line_bytes))
                            reading == ParseInt(reading_bytes)
                        IN  /\ scan_stats' = UpdateStats(scan_stats, station, reading)
                            /\ pc' = pc
    /\ UNCHANGED <<mmap, num_threads, chunk_offsets, window, remaining, worker,
                   this, tx, chan, stats, received, output, field, parsed>>

NextScan == ScanLine

SpecScan == InitScan /\ [][NextScan]_vars

----------------------------------------------------------------------------
\* The input as the claims speak of it: records are the maximal runs of bytes
\* ending in a line terminator; e is the 1-based position of the terminator.

NewlineEnds(buf) == { e \in 1..Len(buf) : buf[e] = NL }

RecordStart(buf, e) ==
    IF \A j \in 1..(e - 1) : buf[j] # NL THEN 1
    ELSE (CHOOSE j \in 1..(e - 1) : buf[j] = NL /\ \A k \in (j + 1)..(e - 1) : buf[k] # NL) + 1

RecordAt(buf, e) == SubSeq(buf, RecordStart(buf, e), e - 1)

HasSeparator(line) == \E k \in 1..Len(line) : line[k] = SEMI

FirstSeparator(line) == CHOOSE k \in 1..Len(line) : line[k] = SEMI /\ \A j \in 1..(k - 1) : line[j] # SEMI

KeyOf(line) == SubSeq(line, 1, FirstSeparator(line) - 1)

FieldOf(line) == SubSeq(line, FirstSeparator(line) + 1, Len(line))

IsDigit(b) == b >= ZERO /\ b <= NINE

Unsigned(f) == IF f # <<>> /\ f[1] = MINUS THEN Tail(f) ELSE f

\* An optional '-', one or more digits, no fractional part.
WholeField(f) ==
    LET body == Unsigned(f) IN
    Len(body) >= 1 /\ \A i \in 1..Len(body) : IsDigit(body[i])

\* An optional '-', one or more digits, '.', one fractional digit.
OneFractionField(f) ==
    LET body == Unsigned(f) IN
    /\ Len(body) >= 3
    /\ body[Len(body) - 1] = DOT
    /\ \A i \in (1..Len(body)) \ {Len(body) - 1} : IsDigit(body[i])

WellFormedField(f) == WholeField(f) \/ OneFractionField(f)

WellFormedRecord(line) == HasSeparator(line) /\ WellFormedField(FieldOf(line))

WellFormedBuffer(buf) ==
    /\ buf = <<>> \/ buf[Len(buf)] = NL
    /\ \A e \in NewlineEnds(buf) : WellFormedRecord(RecordAt(buf, e))

\* The records of buf with key k, and the readings the parser gives them.
RecordsWithKey(buf, k) ==
    { e \in NewlineEnds(buf) : HasSeparator(RecordAt(buf, e)) /\ KeyOf(RecordAt(buf, e)) = k }

ReadingAt(buf, e) == ParseInt(FieldOf(RecordAt(buf, e)))

RECURSIVE SumReadings(_, _)
SumReadings(buf, S) ==
    IF S = {} THEN 0
    ELSE LET e == CHOOSE x \in S : TRUE IN ReadingAt(buf, e) + SumReadings(buf, S \ {e})

PlanSucceeded == pc \notin {"plan", "abort_plan", "parse", "parsed"}

NonEmptyWorkers == { i \in Workers : this[i] # <<>> }

----------------------------------------------------------------------------
\* C1: on a buffer of well-formed, newline-terminated records the final table,
\* and the report made of it, are those of a scan of the whole buffer as a
\* single chunk, whatever the number of workers: so any two worker counts
\* give the same table and report.
ThmChunkingIndependent ==
    (pc = "done" /\ WellFormedBuffer(mmap)) =>
        LET single == DoAggregate(mmap).stats
        IN  /\ stats = single
            /\ output = FormatOutputOf(single)

\* A finished run whose records were split over two workers that saw a common key.
WitChunkingIndependent ==
    /\ pc = "done"
    /\ WellFormedBuffer(mmap)
    /\ \E i, j \in NonEmptyWorkers :
          /\ i < j
          /\ DOMAIN DoAggregate(this[i]).stats \cap DOMAIN DoAggregate(this[j]).stats # {}

\* C2: after aggregate completes on well-formed, newline-terminated records the
\* final table's keys are exactly the keys occurring in the buffer, and per key
\* count is the number of its records, total the sum of their readings, min the
\* smallest and max the largest of them.
ThmFinalTableExact ==
    (pc = "done" /\ WellFormedBuffer(mmap)) =>
        /\ DOMAIN stats = { KeyOf(RecordAt(mmap, e)) : e \in NewlineEnds(mmap) }
        /\ \A k \in DOMAIN stats :
              LET S == RecordsWithKey(mmap, k) IN
              /\ stats[k].count = Cardinality(S)
              /\ stats[k].total = SumReadings(mmap, S)
              /\ \A e \in S : stats[k].min <= ReadingAt(mmap, e) /\ ReadingAt(mmap, e) <= stats[k].max
              /\ \E e \in S : stats[k].min = ReadingAt(mmap, e)
              /\ \E e \in S : stats[k].max = ReadingAt(mmap, e)

\* A finished run with two keys, one of them seen more than once with differing readings.
WitFinalTableExact ==
    /\ pc = "done"
    /\ WellFormedBuffer(mmap)
    /\ Cardinality(DOMAIN stats) >= 2
    /\ \E k \in DOMAIN stats : stats[k].count >= 2 /\ stats[k].min < stats[k].max

\* C3: when planning succeeds chunk_offsets has num_threads + 1 entries, starts
\* at 0, ends at the buffer length and never decreases; so the subtraction of
\* the spawn loop does not underflow, split_at stays within the remaining slice,
\* and the workers' slices are the contiguous ranges between the offsets.
ThmOffsetsPartition ==
    PlanSucceeded =>
        /\ Len(chunk_offsets) = num_threads + 1
        /\ chunk_offsets[1] = 0
        /\ chunk_offsets[num_threads + 1] = Len(mmap)
        /\ \A k \in 1..num_threads : chunk_offsets[k] <= chunk_offsets[k + 1]
        /\ pc # "abort_split"
        /\ remaining = chunk_offsets[window]
        /\ \A i \in Workers :
              worker[i] # "idle" =>
                  this[i] = SubSeq(mmap, chunk_offsets[i] + 1, chunk_offsets[i + 1])

\* Three workers were spawned on a plan with an empty range and two ranges that
\* are not.
WitOffsetsPartition ==
    /\ pc = "recv"
    /\ num_threads = 3
    /\ Cardinality(NonEmptyWorkers) = 2

\* C4: every offset of the plan between the first and the last is the index
\* right after a line terminator, and every record lies within one range.
ThmBoundariesAfterNewline ==
    PlanSucceeded =>
        /\ \A k \in 2..num_threads :
              /\ chunk_offsets[k] \in 1..Len(mmap)
              /\ mmap[chunk_offsets[k]] = NL
        /\ \A e \in NewlineEnds(mmap) :
              \E i \in 1..num_threads :
                  /\ chunk_offsets[i] <= RecordStart(mmap, e) - 1
                  /\ e <= chunk_offsets[i + 1]

\* A plan with a split strictly inside the buffer whose evenly spaced candidate
\* fell inside a record.
WitBoundariesAfterNewline ==
    /\ PlanSucceeded
    /\ \E k \in 1..(num_threads - 1) :
          /\ chunk_offsets[k + 1] < Len(mmap)
          /\ k * ChunkSize >= 1
          /\ mmap[k * ChunkSize] # NL

----------------------------------------------------------------------------
\* The value of a well-formed field as a decimal number, times 10.

RECURSIVE DigitsValue(_)
DigitsValue(ds) ==
    IF ds = <<>> THEN 0
    ELSE DigitsValue(SubSeq(ds, 1, Len(ds) - 1)) * 10 + (ds[Len(ds)] - ZERO)

DecimalTimes10(f) ==
    LET body == Unsigned(f)
        sign == IF f[1] = MINUS THEN -1 ELSE 1
    IN  IF OneFractionField(f)
        THEN sign * (DigitsValue(SubSeq(body, 1, Len(body) - 2)) * 10
                     + (body[Len(body)] - ZERO))
        ELSE sign * DigitsValue(body) * 10

\* C5 as claimed: for every well-formed reading field (optional '-', digits, at
\* most one fractional digit, so "12.3" and "5" alike) parse_int returns the
\* field's decimal value times 10.
CexParseIntTimes10 ==
    (pc = "parsed" /\ WellFormedField(field)) => parsed = DecimalTimes10(field)

\* C5 as amended: for a well-formed field with exactly one fractional digit
\* parse_int returns the field's decimal value times 10; for a well-formed
\* field with no fractional part it returns the field's integer value itself.
ThmParseIntScaled ==
    pc = "parsed" =>
        /\ OneFractionField(field) => parsed = DecimalTimes10(field)
        /\ WholeField(field) => parsed * 10 = DecimalTimes10(field)

\* parse_int was called on "-1.5" and returned -15.
WitParseIntScaled ==
    /\ pc = "parsed"
    /\ field = <<MINUS, ZERO + 1, DOT, ZERO + 5>>
    /\ parsed = -15

----------------------------------------------------------------------------
\* The table worker i sends, and the fold of the tables of the workers listed
\* in order: the first is the seed, the others are merged into it one by one.

TableOf(i) == DoAggregate(this[i]).stats

RECURSIVE TablesUpTo(_)
TablesUpTo(n) == IF n = 0 THEN <<>> ELSE Append(TablesUpTo(n - 1), TableOf(n))

Tables == TablesUpTo(num_threads)

RECURSIVE FoldTables(_, _)
FoldTables(T, order) ==
    IF Len(order) = 1 THEN T[order[1]]
    ELSE MergeTables(FoldTables(T, SubSeq(order, 1, Len(order) - 1)), T[order[Len(order)]])

FoldInOrder(order) == FoldTables(Tables, order)

SpawnOrder == [i \in 1..num_threads |-> i]

BadRecord(buf) == \E e \in NewlineEnds(buf) : ~HasSeparator(RecordAt(buf, e))

\* C6: for a fixed chunk plan the final table is the same whichever table is
\* received first and in whatever order the others arrive: it is the fold of
\* the workers' tables in spawn order, the merge of any two of the tables is
\* commutative and of any three associative, and the report is that of this
\* table.
ThmScheduleIndependent ==
    pc \in {"format", "done"} =>
        LET T == Tables
            final == FoldTables(T, SpawnOrder)
        IN  /\ stats = final
            /\ \A i, j \in Workers : MergeTables(T[i], T[j]) = MergeTables(T[j], T[i])
            /\ \A i, j, k \in Workers :
                  MergeTables(MergeTables(T[i], T[j]), T[k])
                    = MergeTables(T[i], MergeTables(T[j], T[k]))
            /\ pc = "done" => output = FormatOutputOf(final)

\* A finished run of three workers in which the table of the worker spawned
\* last was the seed and the first worker's table came last, the first and the
\* last holding different statistics of a common station.
WitScheduleIndependent ==
    /\ pc = "done"
    /\ num_threads = 3
    /\ received[1] = 3
    /\ received[3] = 1
    /\ \E k \in DOMAIN TableOf(1) \cap DOMAIN TableOf(3) : TableOf(1)[k] # TableOf(3)[k]

\* C7: if a newline-terminated record of the buffer, or of a worker's range,
\* has no ';', format_output is never reached and no report exists, under every
\* interleaving: a state in which format_output is reached or a report exists
\* has no such record.
ThmBadRecordNeverReports ==
    (pc \in {"format", "done"} \/ output # <<>>) =>
        /\ ~BadRecord(mmap)
        /\ \A i \in Workers : ~BadRecord(this[i])

\* A worker panicked on a record without separator after the tables of two
\* other workers were merged, and the scope aborted the run.
WitBadRecordNeverReports ==
    /\ pc = "abort_scope"
    /\ Len(received) = 2
    /\ \E i \in Workers : worker[i] = "panicked" /\ BadRecord(this[i])

\* The number of messages of worker i in the queue, and the number received.
InQueue(i) == Cardinality({ n \in 1..Len(chan) : chan[n].from = i })

Received(i) == Cardinality({ n \in 1..Len(received) : received[n] = i })

\* C8: one worker is spawned per planned range, num_threads in all; a worker
\* that ended without panic has sent exactly one table, which is in the queue
\* or was received once, never both; and when the reducer leaves the loop it has
\* received exactly num_threads tables, one of each worker, and its table is
\* the fold of exactly those, each merged once.
ThmOneTablePerWorker ==
    /\ \A i \in Workers :
          InQueue(i) + Received(i) = (IF worker[i] = "sent" THEN 1 ELSE 0)
    /\ pc \in {"recv", "merge", "format", "done"} =>
          /\ Len(chunk_offsets) - 1 = num_threads
          /\ \A i \in Workers : worker[i] # "idle"
    /\ pc \in {"format", "done"} =>
          /\ chan = <<>>
          /\ Len(received) = num_threads
          /\ \A i \in Workers : Received(i) = 1
          /\ stats = FoldInOrder(received)

\* A finished run of three workers on well-formed input.
WitOneTablePerWorker ==
    /\ pc = "done"
    /\ num_threads = 3
    /\ WellFormedBuffer(mmap)
    /\ Len(received) = 3
    /\ Cardinality(NonEmptyWorkers) >= 2

\* C9: a step of the merge loop that merges the received table B into the
\* accumulated table A gives a table whose keys are those of A and B together;
\* a key of both has the smaller min, the larger max, the sum of the totals and
\* the sum of the counts; a key of only one keeps that table's statistics.
ThmMergeRule ==
    [][ (pc = "merge" /\ pc' = "merge" /\ Len(received') = Len(received) + 1) =>
            LET A == stats
                B == Head(chan).table
                R == stats'
            IN  /\ DOMAIN R = DOMAIN A \cup DOMAIN B
                /\ \A k \in DOMAIN A \cap DOMAIN B :
                      /\ R[k].min = (IF A[k].min <= B[k].min THEN A[k].min ELSE B[k].min)
                      /\ R[k].max = (IF A[k].max >= B[k].max THEN A[k].max ELSE B[k].max)
                      /\ R[k].total = A[k].total + B[k].total
                      /\ R[k].count = A[k].count + B[k].count
                /\ \A k \in DOMAIN A \ DOMAIN B : R[k] = A[k]
                /\ \A k \in DOMAIN B \ DOMAIN A : R[k] = B[k]
      ]_vars

\* The reducer has merged a second table into the first: they share a station,
\* with the smaller min in the second, and the second has a station the first
\* lacks.
WitMergeRule ==
    /\ pc = "merge"
    /\ Len(received) = 2
    /\ LET A == TableOf(received[1])
           B == TableOf(received[2])
       IN  /\ \E k \in DOMAIN A \cap DOMAIN B : B[k].min < A[k].min
           /\ DOMAIN B \ DOMAIN A # {}
           /\ stats = MergeTables(A, B)

\* C10: the mean of every entry of the report is the ceiling of total / count:
\* the least integer not below the exact quotient, for negative totals too.
ThmMeanIsCeiling ==
    pc = "done" =>
        \A n \in 1..Len(output) :
            LET e == stats[output[n].station]
                mean == output[n].mean
            IN  /\ mean * e.count >= e.total
                /\ (mean - 1) * e.count < e.total

\* The report of a station with total 23 and count 2 has mean 12.
WitMeanIsCeiling ==
    /\ pc = "done"
    /\ Len(output) = 1
    /\ stats[output[1].station].total = 23
    /\ stats[output[1].station].count = 2
    /\ output[1].mean = 12

----------------------------------------------------------------------------
\* Strict byte-wise order of two names, byte by byte from the front.
RECURSIVE BytewiseBefore(_, _)
BytewiseBefore(a, b) ==
    IF b = <<>> THEN FALSE
    ELSE IF a = <<>> THEN TRUE
    ELSE \/ Head(a) < Head(b)
         \/ Head(a) = Head(b) /\ BytewiseBefore(Tail(a), Tail(b))

\* C11: the report lists every key of the final table exactly once, in strictly
\* ascending byte-wise order, whatever order the hash table yields its keys in.
ThmReportSorted ==
    pc = "done" =>
        /\ Len(output) = Cardinality(DOMAIN stats)
        /\ { output[n].station : n \in 1..Len(output) } = DOMAIN stats
        /\ \A n \in 1..(Len(output) - 1) :
              BytewiseBefore(output[n].station, output[n + 1].station)

\* The report of the keys b, a, B, A lists them as A, B, a, b.
WitReportSorted ==
    /\ pc = "done"
    /\ DOMAIN stats = { <<98>>, <<97>>, <<66>>, <<65>> }
    /\ [n \in 1..4 |-> output[n].station] = << <<65>>, <<66>>, <<97>>, <<98>> >>

----------------------------------------------------------------------------
Records(buf) == Cardinality(NewlineEnds(buf))

Spawned == { i \in Workers : worker[i] # "idle" }

EmptyWorkers == { i \in Spawned : this[i] = <<>> }

\* C12: with R >= 1 well-formed records and more workers than records, down to
\* a buffer shorter than num_threads bytes, the run never aborts and never
\* stops short of the report, a worker with an empty range builds the empty
\* table, at least num_threads - R ranges are empty, and the final table is
\* that of one scan of the whole buffer.
ThmMoreThreadsThanRecords ==
    (WellFormedBuffer(mmap) /\ Records(mmap) >= 1 /\ num_threads > Records(mmap)) =>
        /\ ~Aborted
        /\ pc = "done" \/ ENABLED Next
        /\ \A i \in EmptyWorkers :
              /\ DoAggregate(this[i]) = [panicked |-> FALSE, stats |-> EmptyMap]
              /\ worker[i] # "panicked"
        /\ pc \in {"recv", "merge", "format", "done"} =>
              Cardinality(EmptyWorkers) >= num_threads - Records(mmap)
        /\ pc = "done" => stats = DoAggregate(mmap).stats

\* A finished run on a buffer shorter than num_threads bytes: one worker had
\* the record, all the others an empty range.
WitMoreThreadsThanRecords ==
    /\ pc = "done"
    /\ Len(mmap) < num_threads
    /\ ChunkSize = 0
    /\ Cardinality(EmptyWorkers) = num_threads - 1
    /\ stats # EmptyMap

----------------------------------------------------------------------------
\* The entries of the report for station k.
ReportEntries(k) == { n \in 1..Len(output) : output[n].station = k }

\* C13: a key that appears in exactly one record of the buffer ends with count
\* 1 and min = total = max, and the three values of its report entry are equal.
ThmSingleRecordKey ==
    pc = "done" =>
        \A k \in DOMAIN stats :
            Cardinality(RecordsWithKey(mmap, k)) = 1 =>
                /\ stats[k].count = 1
                /\ stats[k].min = stats[k].total
                /\ stats[k].max = stats[k].total
                /\ \E n \in ReportEntries(k) :
                      /\ output[n].min = output[n].mean
                      /\ output[n].mean = output[n].max
                      /\ ~output[n].neg_zero

\* A finished run of several workers with one record for a and two for b.
WitSingleRecordKey ==
    /\ pc = "done"
    /\ num_threads > 1
    /\ Cardinality(RecordsWithKey(mmap, KeyA)) = 1
    /\ Records(mmap) = MaxRecords
    /\ stats[KeyA].count = 1
    /\ \E n \in ReportEntries(KeyA) : output[n].mean = stats[KeyA].min

----------------------------------------------------------------------------
Finished == { i \in Workers : worker[i] \in {"sent", "panicked"} }

\* C14 as stated: the reducer has received no table while a worker has yet to
\* finish.
CexReducerWaitsForAll == received # <<>> => Finished = Workers

\* C14, amended: the reducer receives and merges tables as they arrive, while
\* other workers may still run; a table it has received comes from a worker
\* that has finished, and it leaves the loop, to the report or to the abort at
\* the scope's end, only when every worker has finished and every table sent
\* has been received.
ThmLoopEndsAfterAllWorkers ==
    /\ \A n \in 1..Len(received) : worker[received[n]] = "sent"
    /\ received # <<>> => ~tx
    /\ pc \in {"format", "done", "abort_scope"} =>
          /\ Finished = Workers
          /\ chan = <<>>
          /\ \A i \in Workers : worker[i] = "sent" => Received(i) = 1

\* Two tables are merged while the third worker still runs.
WitLoopEndsAfterAllWorkers ==
    /\ pc = "merge"
    /\ Len(received) = 2
    /\ \E i \in Workers : worker[i] = "running"

----------------------------------------------------------------------------
\* The readings of key k in the lines of buf that end at or before offset e, in
\* the order of the buffer.
RECURSIVE ReadingsBefore(_, _, _)
ReadingsBefore(buf, k, e) ==
    IF e = 0 THEN <<>>
    ELSE LET prev == ReadingsBefore(buf, k, e - 1) IN
         IF buf[e] = NL /\ HasSeparator(RecordAt(buf, e)) /\ KeyOf(RecordAt(buf, e)) = k
         THEN Append(prev, ReadingAt(buf, e))
         ELSE prev

\* min = min(min, reading) and max = max(max, reading), each on its own.
RECURSIVE IndependentMin(_)
IndependentMin(rs) ==
    IF Len(rs) = 1 THEN rs[1]
    ELSE Min(IndependentMin(SubSeq(rs, 1, Len(rs) - 1)), rs[Len(rs)])

RECURSIVE IndependentMax(_)
IndependentMax(rs) ==
    IF Len(rs) = 1 THEN rs[1]
    ELSE Max(IndependentMax(SubSeq(rs, 1, Len(rs) - 1)), rs[Len(rs)])

KeysBefore(buf, e) ==
    { KeyOf(RecordAt(buf, x)) :
        x \in { y \in NewlineEnds(buf) : y <= e /\ HasSeparator(RecordAt(buf, y)) } }

\* C15: after every line of a worker's scan, each entry's min and max are those
\* the independent updates give on the readings of its key so far, and
\* min <= max; the table returned is that of the whole scan.
ThmElseIfMinMax ==
    pc \in {"scan", "scanned", "scan_panic"} =>
        /\ pc # "scan_panic" => DOMAIN scan_stats = KeysBefore(mmap, scan_start)
        /\ \A k \in DOMAIN scan_stats :
              LET rs == ReadingsBefore(mmap, k, scan_start) IN
              /\ rs # <<>>
              /\ scan_stats[k].min = IndependentMin(rs)
              /\ scan_stats[k].max = IndependentMax(rs)
              /\ scan_stats[k].min <= scan_stats[k].max
        /\ pc = "scanned" => DoAggregate(mmap) = [panicked |-> FALSE, stats |-> scan_stats]
        /\ pc = "scan_panic" => DoAggregate(mmap).panicked

\* Three readings of one key, the last strictly between the first two: the
\* else-if leaves both extrema alone.
WitElseIfMinMax ==
    /\ pc = "scanned"
    /\ KeyA \in DOMAIN scan_stats
    /\ LET rs == ReadingsBefore(mmap, KeyA, scan_start) IN
       /\ Len(rs) = 3
       /\ rs[1] < rs[3]
       /\ rs[3] < rs[2]
       /\ scan_stats[KeyA].min = rs[1]
       /\ scan_stats[KeyA].max = rs[2]

----------------------------------------------------------------------------
Blocked == pc \in {"recv", "merge"} /\ ~ENABLED (RecvFirst \/ MergeNext \/ ScopeExit)

\* The run has ended as its input demands: in the report, no record lacking
\* its separator; or in an abort, the buffer not being one or more well-formed
\* records, all newline-terminated.
EndedAsDue ==
    \/ pc = "done" /\ ~BadRecord(mmap)
    \/ Aborted /\ ~(WellFormedBuffer(mmap) /\ mmap # <<>>)

\* C16: under fair scheduling every run ends, in the report when the buffer
\* holds one or more well-formed records, all newline-terminated, and in an
\* abort when a record lacks its separator; and whenever the controlling thread
\* is blocked on the channel a worker is still running, whose send or drop
\* unblocks it.
ThmRunEnds ==
    /\ <>EndedAsDue
    /\ [](Blocked => \E i \in Workers : worker[i] = "running")

\* The controlling thread has dropped its sender and is blocked in the loop,
\* one table merged, the queue empty, two workers still running.
WitRunEnds ==
    /\ Blocked
    /\ pc = "merge"
    /\ ~tx
    /\ chan = <<>>
    /\ Cardinality({ i \in Workers : worker[i] = "running" }) = 2

----------------------------------------------------------------------------
\* No line terminator at or after the candidate split point of thread k.
NoNewlineFrom(k) == \A j \in (k * ChunkSize + 1)..Len(mmap) : mmap[j] # NL

\* C17: when some candidate split point has no line terminator at or after it,
\* the run is in the planner or aborted by it: no worker was spawned, no table
\* was built or sent, and there is no report.
ThmNoNewlineAbortsPlan ==
    (\E k \in 1..(num_threads - 1) : NoNewlineFrom(k)) =>
        /\ pc \in {"plan", "abort_plan"}
        /\ Spawned = {}
        /\ \A i \in Workers : this[i] = <<>>
        /\ chan = <<>>
        /\ received = <<>>
        /\ stats = EmptyMap
        /\ output = <<>>

\* The planner found the first split and aborted on the second, in a buffer
\* that does hold line terminators.
WitNoNewlineAbortsPlan ==
    /\ pc = "abort_plan"
    /\ num_threads = 3
    /\ Len(chunk_offsets) = 2
    /\ ~NoNewlineFrom(1)
    /\ NoNewlineFrom(2)

----------------------------------------------------------------------------
EndsWithNewline(buf) == buf # <<>> /\ buf[Len(buf)] = NL

Candidate(k) == k * (Len(mmap) \div num_threads)

\* C18: in a non-empty buffer whose last byte is a line terminator, every
\* candidate split point lies strictly below the buffer's length and has a
\* line terminator at or after it, and the planner never aborts: each offset it
\* pushes lies beyond its candidate.
ThmTerminatedBufferPlans ==
    EndsWithNewline(mmap) =>
        /\ \A k \in 1..(num_threads - 1) :
              /\ Candidate(k) < Len(mmap)
              /\ \E j \in (Candidate(k) + 1)..Len(mmap) : mmap[j] = NL
        /\ pc # "abort_plan"
        /\ PlanSucceeded =>
              \A k \in 1..(num_threads - 1) : chunk_offsets[k + 1] > Candidate(k)

\* The planner succeeded with a candidate that is the buffer's last byte.
WitTerminatedBufferPlans ==
    /\ EndsWithNewline(mmap)
    /\ PlanSucceeded
    /\ \E k \in 1..(num_threads - 1) :
          /\ Candidate(k) = Len(mmap) - 1
          /\ chunk_offsets[k + 1] = Len(mmap)

----------------------------------------------------------------------------
\* buf without the bytes that follow its last line terminator.
UpToLastNewline(buf) ==
    LET ends == NewlineEnds(buf) IN
    IF ends = {} THEN <<>>
    ELSE SubSeq(buf, 1, CHOOSE e \in ends : \A x \in ends : x <= e)

RECURSIVE SumCounts(_, _)
SumCounts(map, S) ==
    IF S = {} THEN 0
    ELSE LET k == CHOOSE x \in S : TRUE IN map[k].count + SumCounts(map, S \ {k})

\* C19: the bytes after the last line terminator of a worker's range change
\* neither its table nor whether it panics (stated while the ranges are handed
\* out and when all are; they do not change afterwards); a single-threaded run on a buffer
\* with no record lacking its separator never aborts, whatever follows the
\* last newline; and the counts of the final table add up to the number of
\* newline bytes in the buffer.
ThmTailIgnored ==
    /\ pc \in {"spawn", "recv"} =>
          \A i \in Spawned : DoAggregate(this[i]) = DoAggregate(UpToLastNewline(this[i]))
    /\ (num_threads = 1 /\ ~BadRecord(mmap)) => ~Aborted
    /\ pc = "done" => SumCounts(stats, DOMAIN stats) = Records(mmap)

\* A finished single-threaded run on a buffer whose last record has no newline:
\* one count fewer than lines.
WitTailIgnored ==
    /\ pc = "done"
    /\ num_threads = 1
    /\ UpToLastNewline(mmap) # mmap
    /\ Records(mmap) = MaxRecords
    /\ SumCounts(stats, DOMAIN stats) = MaxRecords

----------------------------------------------------------------------------
Foreign(b) == ~(IsDigit(b) \/ b = MINUS \/ b = DOT)

\* f up to its first byte that is no digit, '-' or '.'.
BeforeForeign(f) ==
    SubSeq(f, 1, Cardinality({ n \in 1..Len(f) : \A j \in 1..n : ~Foreign(f[j]) }))

\* C20: parse_int's result is that of the field cut before its first byte that
\* is no digit, '-' or '.'; when what precedes that byte is a reading with one
\* fractional digit, the result is that reading times ten, whatever follows.
ThmForeignByteStops ==
    pc = "parsed" =>
        /\ parsed = ParseInt(BeforeForeign(field))
        /\ OneFractionField(BeforeForeign(field)) =>
              parsed = DecimalTimes10(BeforeForeign(field))
        /\ WholeField(BeforeForeign(field)) =>
              parsed * 10 = DecimalTimes10(BeforeForeign(field))

\* "1", a carriage return, "5": the call returned 1.
WitForeignByteStops ==
    /\ pc = "parsed"
    /\ field = <<ZERO + 1, 13, ZERO + 5>>
    /\ BeforeForeign(field) = <<ZERO + 1>>
    /\ parsed = 1

====
